---- MODULE Spec2Model ----
(***************************************************************************)
(* A model of params-parser (src/src/parser.ts): the ParamsParser class    *)
(* that reduces the written or resolved type of every function parameter   *)
(* to one of four shapes (SimpleType, SimpleEnum, SimpleObject,            *)
(* SimpleArray) and lists the functions and constants of a source file.    *)
(*                                                                         *)
(* The syntax tree and the resolved types come from ts-morph.  A source    *)
(* file is modelled by its tree (what createSourceFile returns), a text    *)
(* that the code searches or rewrites (a literal's text, a rendered type,  *)
(* a type name, a source text) by its sequence of characters, and a tag of *)
(* a closed set (a syntax kind, the `type` of a shape) by a string.  A     *)
(* value that may be undefined is a sequence of length 0 or 1.             *)
(***************************************************************************)
EXTENDS Integers, Sequences, FiniteSets, TLC

VARIABLES project, call, result, trace, docCalls, history

vars == <<project, call, result, trace, docCalls, history>>

(***************************************************************************)
(* Values that may be undefined.                                           *)
(***************************************************************************)
None == <<>>

Some(v) == <<v>>

\* JavaScript's a || b on an optional text: undefined and '' are falsy
OrElse(opt, dflt) == IF opt = None \/ opt[1] = <<>> THEN dflt ELSE opt[1]

\* JavaScript's truthiness of an optional boolean (an option of ParseOptions)
Truthy(opt) == opt # None /\ opt[1]

(***************************************************************************)
(* Texts as sequences of characters.                                       *)
(***************************************************************************)
SQ == "'"

DQ == "\""

T_string == <<"s", "t", "r", "i", "n", "g">>

T_number == <<"n", "u", "m", "b", "e", "r">>

T_boolean == <<"b", "o", "o", "l", "e", "a", "n">>

T_Date == <<"D", "a", "t", "e">>

T_any == <<"a", "n", "y">>

T_Array == <<"A", "r", "r", "a", "y">>

T_interface == <<"i", "n", "t", "e", "r", "f", "a", "c", "e">>

T_true == <<"t", "r", "u", "e">>

T_null == <<"n", "u", "l", "l">>

T_Props == <<"P", "r", "o", "p", "s">>

T_DateRange == <<"D", "a", "t", "e", "R", "a", "n", "g", "e">>

T_Shape == <<"S", "h", "a", "p", "e">>

T_Update == <<"U", "p", "d", "a", "t", "e">>

T_id == <<"i", "d">>

T_tags == <<"t", "a", "g", "s">>

T_email == <<"e", "m", "a", "i", "l">>

T_label == <<"l", "a", "b", "e", "l">>

\* String.prototype.includes
Includes(text, pat) ==
  \E i \in 0..(Len(text) - Len(pat)) : SubSeq(text, i + 1, i + Len(pat)) = pat

\* String.prototype.startsWith
StartsWith(text, pat) ==
  Len(text) >= Len(pat) /\ SubSeq(text, 1, Len(pat)) = pat

\* text.replaceAll(/['"]/g, ''): every quote character is dropped, wherever it is
StripQuotes(text) == SelectSeq(text, LAMBDA c : c # SQ /\ c # DQ)

RECURSIVE Join(_, _)
\* the texts of ts joined by sep
Join(ts, sep) ==
  IF ts = <<>> THEN <<>>
  ELSE IF Len(ts) = 1 THEN ts[1]
  ELSE ts[1] \o sep \o Join(Tail(ts), sep)

RECURSIVE Flatten(_)
\* the concatenation of a sequence of sequences
Flatten(ss) == IF ss = <<>> THEN <<>> ELSE ss[1] \o Flatten(Tail(ss))

\* the sequences over S of a length from lo to hi
SeqsOf(S, lo, hi) == UNION {[1..n -> S] : n \in lo..hi}

(***************************************************************************)
(* The syntax tree ts-morph hands to the parser: type nodes, the members   *)
(* of a type literal or an interface, and the initializer of a parameter   *)
(* or a variable.  Field names follow the getters the parser calls.        *)
(***************************************************************************)
KeywordTypeNode(k) == [kind |-> k]

ArrayTypeNode(elem) == [kind |-> "ArrayType", elementTypeNode |-> elem]

TypeReferenceNode(name, args) ==
  [kind |-> "TypeReference", typeName |-> name, typeArguments |-> args]

UnionTypeNode(types) == [kind |-> "UnionType", typeNodes |-> types]

\* a literal type; text is the literal's source text, quotes included
LiteralTypeNode(litKind, text) ==
  [kind |-> "LiteralType", literal |-> [kind |-> litKind, text |-> text]]

TypeLiteralNode(members) == [kind |-> "TypeLiteral", members |-> members]

ParenthesizedTypeNode(inner) == [kind |-> "ParenthesizedType", typeNode |-> inner]

FunctionTypeNode == [kind |-> "FunctionType"]

\* a property member `name: T`, `name?: T` or `name` of a type literal or interface
PropertySignature(name, question, typeNode) ==
  [kind |-> "PropertySignature", name |-> name, questionToken |-> question,
   typeNode |-> typeNode, initializer |-> None]

\* a method member `name(): void`
MethodSignature(name) == [kind |-> "MethodSignature", name |-> name]

\* TypeElementMemberedNode.getProperties: the property signatures among the members
getProperties(node) ==
  SelectSeq(node.members, LAMBDA m : m.kind = "PropertySignature")

InterfaceDeclaration(name, members) ==
  [kind |-> "InterfaceDeclaration", name |-> name, members |-> members]

\* an initializer expression: its syntax kind and its source text
Expression(kind, text) == [kind |-> kind, text |-> text]

(***************************************************************************)
(* The type nodes the model draws annotations from.                        *)
(***************************************************************************)
MaxDepth == 3

MaxUnionLen == 3

MaxMembers == 3

MaxParams == 3

StringT == KeywordTypeNode("StringKeyword")

NumberT == KeywordTypeNode("NumberKeyword")

BooleanT == KeywordTypeNode("BooleanKeyword")

RefT(name) == TypeReferenceNode(name, <<>>)

\* "a", 'b' and "a'b" (an apostrophe inside double quotes)
StringLiterals ==
  { LiteralTypeNode("StringLiteral", <<DQ, "a", DQ>>),
    LiteralTypeNode("StringLiteral", <<SQ, "b", SQ>>),
    LiteralTypeNode("StringLiteral", <<DQ, "a", SQ, "b", DQ>>) }

\* 1, true and null
OtherLiterals ==
  { LiteralTypeNode("NumericLiteral", <<"1">>),
    LiteralTypeNode("TrueKeyword", T_true),
    LiteralTypeNode("NullKeyword", T_null) }

\* the literal "a"
LitA == LiteralTypeNode("StringLiteral", <<DQ, "a", DQ>>)

\* the annotations that are wrapped
LeafTypeNodes ==
  { StringT, NumberT, KeywordTypeNode("AnyKeyword"), FunctionTypeNode,
    RefT(T_Date), RefT(T_Props), RefT(T_DateRange), RefT(T_Shape),
    LitA, LiteralTypeNode("StringLiteral", <<DQ, "a", SQ, "b", DQ>>),
    LiteralTypeNode("NumericLiteral", <<"1">>) }

\* the annotations that are not: boolean, Array without a type argument,
\* Update and the other literals
OtherLeafTypeNodes ==
  {BooleanT, RefT(T_Array), RefT(T_Update)} \cup StringLiterals \cup OtherLiterals

\* the unions of 2..MaxUnionLen literal types
LiteralUnions ==
  { UnionTypeNode(s) :
      s \in SeqsOf(StringLiterals \cup {LiteralTypeNode("NumericLiteral", <<"1">>)},
                   2, MaxUnionLen) }

\* t as the element of `T[]` or a member of a union: a union or a function
\* type is written in parentheses there
Operand(t) ==
  IF t.kind \in {"UnionType", "FunctionType"} THEN ParenthesizedTypeNode(t) ELSE t

\* the union `A | B | ...` of the members of ts; a member that is a union
\* is not a node of its own, its members are members
UnionOf(ts) ==
  UnionTypeNode(Flatten([i \in 1..Len(ts) |->
    IF ts[i].kind = "UnionType" THEN ts[i].typeNodes
    ELSE <<Operand(ts[i])>>]))

\* the annotations that wrap t once: an array, a union that starts or ends
\* with t, an object type with a member of type t, a parenthesized t
Wrap(t) ==
  { ArrayTypeNode(Operand(t)),
    TypeReferenceNode(T_Array, <<t>>),
    ParenthesizedTypeNode(t),
    UnionOf(<<t, NumberT>>),
    UnionOf(<<LitA, t>>),
    TypeLiteralNode(<<PropertySignature(T_id, FALSE, Some(NumberT)),
                      PropertySignature(T_tags, FALSE, Some(t))>>),
    TypeLiteralNode(<<MethodSignature(T_id),
                      PropertySignature(T_email, TRUE, Some(t))>>) }

\* the annotations of S and those that wrap one of them
Wrapped(S) == S \cup UNION {Wrap(t) : t \in S}

\* the wrappings that are nested deeper: arrays, a union and an object type
DeepWrap(t) ==
  { ArrayTypeNode(Operand(t)),
    TypeReferenceNode(T_Array, <<t>>),
    UnionOf(<<t, NumberT>>),
    TypeLiteralNode(<<PropertySignature(T_id, FALSE, Some(NumberT)),
                      PropertySignature(T_tags, FALSE, Some(t))>>) }

RECURSIVE NestedTypeNodes(_)
\* string, Props and "a" wrapped at most d times
NestedTypeNodes(d) ==
  IF d = 0 THEN {StringT, RefT(T_Props), LitA}
  ELSE LET lower == NestedTypeNodes(d - 1)
       IN  lower \cup UNION {DeepWrap(t) : t \in lower}

\* the members an object type is drawn from
MemberPool ==
  { PropertySignature(n, q, t) :
      n \in {T_id, T_email, T_label}, q \in BOOLEAN,
      t \in {None, Some(StringT), Some(RefT(T_Props))} }
  \cup {MethodSignature(T_tags)}

\* member lists without a repeated name (a repeated name is a compile error)
MemberLists ==
  { ms \in SeqsOf(MemberPool, 0, MaxMembers) :
      \A i, j \in 1..Len(ms) : i # j => ms[i].name # ms[j].name }

TypeNodes ==
  Wrapped(Wrapped(LeafTypeNodes)) \cup NestedTypeNodes(MaxDepth)
    \cup OtherLeafTypeNodes \cup LiteralUnions
    \cup {TypeLiteralNode(ms) : ms \in MemberLists}

(***************************************************************************)
(* The resolved type of an occurrence, as ts-morph's type checker gives    *)
(* it to parseCompilerType: its rendered text (Type.getText) and the       *)
(* declarations of its symbol (Type.getSymbol()?.getDeclarations()).       *)
(* decls are the interface declarations in scope.                          *)
(***************************************************************************)
\* the interface declarations named name, in declaration order
declarationsOf(name, decls) == SelectSeq(decls, LAMBDA d : d.name = name)

RECURSIVE Unparenthesized(_)
\* the type node inside any parentheses
Unparenthesized(node) ==
  IF node.kind = "ParenthesizedType" THEN Unparenthesized(node.typeNode) ELSE node

\* the text of an array of elem, whose text is text
arrayText(elem, text) ==
  IF Unparenthesized(elem).kind \in {"UnionType", "FunctionType"}
  THEN <<"(">> \o text \o <<")", "[", "]">>
  ELSE text \o <<"[", "]">>

RECURSIVE typeText(_, _)
\* Type.getText() of the type a type node denotes.  A union is rendered in
\* the order written; the patterns parseCompilerType looks for never span
\* the " | " between two members, so the order does not change its answer.
typeText(node, decls) ==
  CASE node.kind = "StringKeyword" -> T_string
    [] node.kind = "NumberKeyword" -> T_number
    [] node.kind = "BooleanKeyword" -> T_boolean
    [] node.kind = "AnyKeyword" -> T_any
    [] node.kind = "FunctionType" -> <<"(", ")", " ", "=", ">", " ", "v", "o", "i", "d">>
    [] node.kind = "LiteralType" ->
         IF node.literal.kind = "StringLiteral"
         THEN <<DQ>> \o SubSeq(node.literal.text, 2, Len(node.literal.text) - 1) \o <<DQ>>
         ELSE node.literal.text
    [] node.kind = "ParenthesizedType" -> typeText(node.typeNode, decls)
    [] node.kind = "ArrayType" ->
         arrayText(node.elementTypeNode, typeText(node.elementTypeNode, decls))
    [] node.kind = "TypeReference" ->
         IF node.typeName = T_Date THEN T_Date
         ELSE IF node.typeName = T_Array
         THEN IF node.typeArguments = <<>> THEN T_any
              ELSE arrayText(node.typeArguments[1],
                             typeText(node.typeArguments[1], decls))
         ELSE IF declarationsOf(node.typeName, decls) # <<>> THEN node.typeName
         ELSE T_any
    [] node.kind = "UnionType" ->
         Join([i \in 1..Len(node.typeNodes) |-> typeText(node.typeNodes[i], decls)],
              <<" ", "|", " ">>)
    [] node.kind = "TypeLiteral" ->
         <<"{", " ">>
           \o Flatten([i \in 1..Len(node.members) |->
                LET m == node.members[i]
                IN  IF m.kind = "MethodSignature"
                    THEN m.name \o <<"(", ")", ":", " ", "v", "o", "i", "d", ";", " ">>
                    ELSE m.name
                           \o (IF m.questionToken THEN <<"?">> ELSE <<>>)
                           \o <<":", " ">>
                           \o (IF m.typeNode = None THEN T_any
                               ELSE typeText(m.typeNode[1], decls))
                           \o <<";", " ">>])
           \o <<"}">>

RECURSIVE symbolDeclarations(_, _)
\* Type.getSymbol()?.getDeclarations(): None when the type has no symbol.
\* Date and the arrays have the symbol of a library interface, which
\* declares Date's members as methods; their rendered text is matched
\* before the symbol is looked at.
symbolDeclarations(node, decls) ==
  CASE node.kind \in {"TypeLiteral", "FunctionType"} -> Some(<<node>>)
    [] node.kind = "ParenthesizedType" -> symbolDeclarations(node.typeNode, decls)
    [] node.kind = "ArrayType" -> Some(<<InterfaceDeclaration(T_Array, <<>>)>>)
    [] node.kind = "TypeReference" ->
         IF node.typeName = T_Date THEN Some(<<InterfaceDeclaration(T_Date, <<>>)>>)
         ELSE IF node.typeName = T_Array /\ node.typeArguments # <<>>
         THEN Some(<<InterfaceDeclaration(T_Array, <<>>)>>)
         ELSE IF declarationsOf(node.typeName, decls) # <<>>
         THEN Some(declarationsOf(node.typeName, decls))
         ELSE None
    [] OTHER -> None

\* the type the checker infers from an initializer when nothing is annotated
\* (literal types are widened: `age = 25` is a number)
initializerTypeText(init) ==
  CASE init.kind = "NumericLiteral" -> T_number
    [] init.kind = "StringLiteral" -> T_string
    [] init.kind \in {"TrueKeyword", "FalseKeyword"} -> T_boolean
    [] OTHER -> T_any

\* Node.getType() of a parameter: [text, declarations]
getType(param, decls) ==
  IF param.typeNode # None
  THEN [text |-> typeText(param.typeNode[1], decls),
        declarations |-> symbolDeclarations(param.typeNode[1], decls)]
  ELSE IF param.initializer # None
  THEN [text |-> initializerTypeText(param.initializer[1]), declarations |-> None]
  ELSE [text |-> T_any, declarations |-> None]

(***************************************************************************)
(* The output types (src/types.ts).  The properties of a SimpleObject are  *)
(* a JavaScript object: entries [key, value] in insertion order, one per   *)
(* key.                                                                    *)
(***************************************************************************)
SimpleType(t) == [type |-> t]

SimpleEnum(values) == [type |-> "enum", values |-> values]

SimpleObject(properties) == [type |-> "object", properties |-> properties]

SimpleArray(items) == [type |-> "array", items |-> items]

SimpleParam(name, type, description, required, defaultValue) ==
  [name |-> name, type |-> type, description |-> description,
   required |-> required, defaultValue |-> defaultValue]

\* what parseTypeNode returns for an annotation it does not resolve
Null == [type |-> "null"]

T_item == <<"i", "t", "e", "m">>

\* properties[key] = value: a known key keeps its place and takes the new value
Put(properties, key, value) ==
  IF \E i \in 1..Len(properties) : properties[i].key = key
  THEN [i \in 1..Len(properties) |->
          IF properties[i].key = key THEN [key |-> key, value |-> value]
          ELSE properties[i]]
  ELSE Append(properties, [key |-> key, value |-> value])

RECURSIVE PutAll(_, _)
\* the assignments properties[p.name] = p for the params ps, in order
PutAll(properties, ps) ==
  IF ps = <<>> THEN properties
  ELSE PutAll(Put(properties, ps[1].name, ps[1]), Tail(ps))

\* Object.keys(properties)
Keys(properties) == [i \in 1..Len(properties) |-> properties[i].key]

\* properties[key], for a key of the object
Get(properties, key) ==
  (CHOOSE e \in {properties[i] : i \in 1..Len(properties)} : e.key = key).value

\* a || b where a is a shape or null
\* OrShape that gives an empty object for a null
OrShape_EmptyObject(a, b) ==
  IF a = Null THEN [type |-> "object", properties |-> <<>>] ELSE a

OrShape(a, b) == IF a = Null THEN b ELSE a

(***************************************************************************)
(* ParamsParser.parseTypeNode: the syntactic tier.                         *)
(***************************************************************************)
\* arrayItem with an item that is not required
arrayItem_Optional(elementType) ==
  SimpleParam(T_item, elementType, <<>>, FALSE, Some(<<>>))

\* the single item of an array shape
arrayItem(elementType) == SimpleParam(T_item, elementType, <<>>, TRUE, Some(<<>>))

RECURSIVE literalValues(_)
\* the loop over the members of a union: the stripped texts of the literal
\* members up to the first member that is not a literal type
literalValues(types) ==
  IF types = <<>> \/ types[1].kind # "LiteralType" THEN <<>>
  ELSE <<StripQuotes(types[1].literal.text)>> \o literalValues(Tail(types))

\* allLiterals after the loop
allLiterals(types) == \A i \in 1..Len(types) : types[i].kind = "LiteralType"

RECURSIVE parseTypeNode(_)

\* case SyntaxKind.ArrayType
parseArrayType(typeNode) ==
  SimpleArray(<<arrayItem(OrShape(parseTypeNode(typeNode.elementTypeNode),
                                  SimpleType("string")))>>)

\* parseTypeReference without the Date case
parseTypeReference_NoDate(typeNode) ==
  IF typeNode.typeName = T_Array /\ Len(typeNode.typeArguments) > 0
  THEN SimpleArray(<<arrayItem(OrShape(parseTypeNode(typeNode.typeArguments[1]),
                                       SimpleType("string")))>>)
  ELSE Null

\* case SyntaxKind.TypeReference
parseTypeReference(typeNode) ==
  IF typeNode.typeName = T_Date THEN SimpleType("date")
  ELSE IF typeNode.typeName = T_Array /\ Len(typeNode.typeArguments) > 0
  THEN SimpleArray(<<arrayItem(OrShape(parseTypeNode(typeNode.typeArguments[1]),
                                       SimpleType("string")))>>)
  ELSE Null

\* case SyntaxKind.UnionType
parseUnionType(typeNode) ==
  IF allLiterals(typeNode.typeNodes) /\ Len(literalValues(typeNode.typeNodes)) > 0
  THEN SimpleEnum(literalValues(typeNode.typeNodes))
  ELSE parseTypeNode(typeNode.typeNodes[1])

\* literalProperty that ignores the optional marker
literalProperty_Required(prop) ==
  SimpleParam(prop.name,
              IF prop.typeNode # None
              THEN OrShape(parseTypeNode(prop.typeNode[1]), SimpleType("string"))
              ELSE SimpleType("string"),
              <<>>,
              TRUE,
              Some(<<>>))

\* the property a type literal's member prop gives
literalProperty(prop) ==
  SimpleParam(prop.name,
              IF prop.typeNode # None
              THEN OrShape(parseTypeNode(prop.typeNode[1]), SimpleType("string"))
              ELSE SimpleType("string"),
              <<>>,
              ~prop.questionToken,
              Some(<<>>))

\* case SyntaxKind.TypeLiteral
parseTypeLiteral(typeNode) ==
  LET props == SelectSeq(getProperties(typeNode),
                         LAMBDA prop : prop.kind = "PropertySignature")
  IN  SimpleObject(PutAll(<<>>, [i \in 1..Len(props) |-> literalProperty(props[i])]))

parseTypeNode(typeNode) ==
  CASE typeNode.kind = "StringKeyword" -> SimpleType("string")
    [] typeNode.kind = "NumberKeyword" -> SimpleType("number")
    [] typeNode.kind = "BooleanKeyword" -> SimpleType("boolean")
    [] typeNode.kind = "ArrayType" -> parseArrayType(typeNode)
    [] typeNode.kind = "TypeReference" -> parseTypeReference(typeNode)
    [] typeNode.kind = "UnionType" -> parseUnionType(typeNode)
    [] typeNode.kind = "TypeLiteral" -> parseTypeLiteral(typeNode)
    [] OTHER -> Null

RECURSIVE parseTypeNodeCalls(_)
\* the number of times parseTypeNode is entered to reduce typeNode
parseTypeNodeCalls(typeNode) ==
  CASE typeNode.kind = "ArrayType" -> 1 + parseTypeNodeCalls(typeNode.elementTypeNode)
    [] typeNode.kind = "TypeReference" ->
         IF typeNode.typeName # T_Date /\ typeNode.typeName = T_Array
              /\ Len(typeNode.typeArguments) > 0
         THEN 1 + parseTypeNodeCalls(typeNode.typeArguments[1])
         ELSE 1
    [] typeNode.kind = "UnionType" ->
         IF allLiterals(typeNode.typeNodes) /\ Len(literalValues(typeNode.typeNodes)) > 0
         THEN 1
         ELSE 1 + parseTypeNodeCalls(typeNode.typeNodes[1])
    [] typeNode.kind = "TypeLiteral" ->
         LET props == getProperties(typeNode)
             n[i \in 0..Len(props)] ==
               IF i = 0 THEN 0
               ELSE n[i - 1] + (IF props[i].typeNode # None
                                THEN parseTypeNodeCalls(props[i].typeNode[1])
                                ELSE 0)
         IN  1 + n[Len(props)]
    [] OTHER -> 1

(***************************************************************************)
(* ParamsParser.parseCompilerType: the semantic tier.                      *)
(***************************************************************************)
\* the loop over the properties of one interface declaration
interfaceProperties(properties, interfaceDecl) ==
  LET props == SelectSeq(getProperties(interfaceDecl),
                         LAMBDA prop : prop.kind = "PropertySignature")
  IN  PutAll(properties,
        [i \in 1..Len(props) |->
           SimpleParam(props[i].name,
                       IF props[i].typeNode # None
                       THEN OrShape(parseTypeNode(props[i].typeNode[1]),
                                    SimpleType("string"))
                       ELSE SimpleType("string"),
                       <<>>,
                       ~props[i].questionToken,
                       props[i].initializer)])

RECURSIVE declarationsObject_AnyDeclaration(_, _)
\* declarationsObject that reads the members of a type literal as it reads
\* those of an interface
declarationsObject_AnyDeclaration(declarations, properties) ==
  IF declarations = <<>> THEN Null
  ELSE IF declarations[1].kind \notin {"InterfaceDeclaration", "TypeLiteral"}
  THEN declarationsObject_AnyDeclaration(Tail(declarations), properties)
  ELSE LET added == interfaceProperties(properties, declarations[1])
       IN  IF Len(Keys(added)) > 0 THEN SimpleObject(added)
           ELSE declarationsObject_AnyDeclaration(Tail(declarations), added)

RECURSIVE declarationsObject(_, _)
\* the loop over the declarations of the symbol: the object of the first
\* interface declaration after which properties is not empty, else null
declarationsObject(declarations, properties) ==
  IF declarations = <<>> THEN Null
  ELSE IF declarations[1].kind # "InterfaceDeclaration"
  THEN declarationsObject(Tail(declarations), properties)
  ELSE LET added == interfaceProperties(properties, declarations[1])
       IN  IF Len(Keys(added)) > 0 THEN SimpleObject(added)
           ELSE declarationsObject(Tail(declarations), added)

\* parseCompilerType that looks for 'number' before 'string'
parseCompilerType_NumberFirst(compilerType) ==
  LET typeText_ == compilerType.text
      fromSymbol == IF compilerType.declarations # None
                    THEN declarationsObject(compilerType.declarations[1], <<>>)
                    ELSE Null
  IN  IF Includes(typeText_, <<"[", "]">>) \/ StartsWith(typeText_, T_Array \o <<"<">>)
      THEN SimpleArray(<<arrayItem(SimpleType("string"))>>)
      ELSE IF Includes(typeText_, T_number) \/ typeText_ = T_number
      THEN SimpleType("number")
      ELSE IF Includes(typeText_, T_string) \/ typeText_ = T_string
      THEN SimpleType("string")
      ELSE IF Includes(typeText_, T_boolean) \/ typeText_ = T_boolean
      THEN SimpleType("boolean")
      ELSE IF Includes(typeText_, T_Date) \/ typeText_ = T_Date
      THEN SimpleType("date")
      ELSE IF fromSymbol # Null THEN fromSymbol
      ELSE IF Includes(typeText_, <<"{">>) \/ Includes(typeText_, T_interface)
      THEN SimpleObject(<<>>)
      ELSE SimpleType("string")

parseCompilerType(compilerType) ==
  LET typeText_ == compilerType.text
      fromSymbol == IF compilerType.declarations # None
                    THEN declarationsObject(compilerType.declarations[1], <<>>)
                    ELSE Null
  IN  IF Includes(typeText_, <<"[", "]">>) \/ StartsWith(typeText_, T_Array \o <<"<">>)
      THEN SimpleArray(<<arrayItem(SimpleType("string"))>>)
      ELSE IF Includes(typeText_, T_string) \/ typeText_ = T_string
      THEN SimpleType("string")
      ELSE IF Includes(typeText_, T_number) \/ typeText_ = T_number
      THEN SimpleType("number")
      ELSE IF Includes(typeText_, T_boolean) \/ typeText_ = T_boolean
      THEN SimpleType("boolean")
      ELSE IF Includes(typeText_, T_Date) \/ typeText_ = T_Date
      THEN SimpleType("date")
      ELSE IF fromSymbol # Null THEN fromSymbol
      ELSE IF Includes(typeText_, <<"{">>) \/ Includes(typeText_, T_interface)
      THEN SimpleObject(<<>>)
      ELSE SimpleType("string")

(***************************************************************************)
(* ParamsParser.parseType: the syntactic tier first, then the semantic.    *)
(***************************************************************************)
\* parseType without the fallback to the semantic tier for an annotation
\* the syntactic tier leaves unresolved
parseType_NoFallback(typeNode, compilerType) ==
  IF typeNode # None THEN parseTypeNode(typeNode[1])
  ELSE parseCompilerType(compilerType)

parseType(typeNode, compilerType) ==
  IF typeNode # None /\ parseTypeNode(typeNode[1]) # Null
  THEN parseTypeNode(typeNode[1])
  ELSE parseCompilerType(compilerType)

\* the tier that gave parseType its result
parseTypeTier(typeNode, compilerType) ==
  IF typeNode # None /\ parseTypeNode(typeNode[1]) # Null
  THEN "syntactic"
  ELSE "semantic"

(***************************************************************************)
(* Declarations of a source file, as the parser reads them.                *)
(***************************************************************************)
ParameterDeclaration(name, typeNode, question, initializer) ==
  [kind |-> "Parameter", name |-> name, typeNode |-> typeNode,
   questionToken |-> question, initializer |-> initializer]

\* a documentation block: its description and its tags
JSDoc(description, tags) == [description |-> description, tags |-> tags]

JSDocTag(tagName, comment) == [tagName |-> tagName, comment |-> comment]

\* name is None for `function () {}`; returnTypeNode is the text of the
\* written return type, None when there is none
FunctionDeclaration(name, parameters, returnTypeNode, jsDocs) ==
  [kind |-> "FunctionDeclaration", name |-> name, parameters |-> parameters,
   returnTypeNode |-> returnTypeNode, jsDocs |-> jsDocs]

\* an arrow function or a function expression, as an initializer
FunctionLikeExpression(kind, text, parameters, returnTypeNode) ==
  [kind |-> kind, text |-> text, parameters |-> parameters,
   returnTypeNode |-> returnTypeNode, jsDocs |-> <<>>]

\* `name = initializer` in a variable statement; typeText is the rendered
\* resolved type of the variable, leadingComment what the regular expression
\* /\/\*\*([\s\S]*?)\*\/\s*$/ captures in the text of the file before the
\* declaration's name, None when it does not match: the text from the first
\* /** of the file to the */ of a comment that ends right before the name
VariableDeclaration(name, initializer, typeText_, leadingComment) ==
  [kind |-> "VariableDeclaration", name |-> name, initializer |-> initializer,
   typeText |-> typeText_, leadingComment |-> leadingComment]

VariableStatement(declarations, jsDocs) ==
  [kind |-> "VariableStatement", declarations |-> declarations, jsDocs |-> jsDocs]

SourceFile(fileName, statements) == [fileName |-> fileName, statements |-> statements]

\* SourceFile.getFunctions(): the top-level function declarations
getFunctions(sourceFile) ==
  SelectSeq(sourceFile.statements, LAMBDA st : st.kind = "FunctionDeclaration")

\* SourceFile.getVariableDeclarations(): every declaration of every top-level
\* variable statement, each with the statement that holds it
getVariableDeclarations(sourceFile) ==
  LET sts == SelectSeq(sourceFile.statements, LAMBDA st : st.kind = "VariableStatement")
  IN  Flatten([i \in 1..Len(sts) |->
        [j \in 1..Len(sts[i].declarations) |->
           [statement |-> sts[i]] @@ sts[i].declarations[j]]])

\* the interface declarations of a source file
getInterfaces(sourceFile) ==
  SelectSeq(sourceFile.statements, LAMBDA st : st.kind = "InterfaceDeclaration")

(***************************************************************************)
(* The documentation extractor.                                            *)
(***************************************************************************)
WhiteSpace == {" ", "\n", "\t"}

RECURSIVE TrimStart(_)
TrimStart(text) ==
  IF text # <<>> /\ text[1] \in WhiteSpace THEN TrimStart(Tail(text)) ELSE text

RECURSIVE TrimEnd(_)
TrimEnd(text) ==
  IF text # <<>> /\ text[Len(text)] \in WhiteSpace
  THEN TrimEnd(SubSeq(text, 1, Len(text) - 1))
  ELSE text

\* jsDocMatch[1].replaceAll('*', '').trim()
commentText(text) == TrimStart(TrimEnd(SelectSeq(text, LAMBDA c : c # "*")))

\* getJsDocDescription of a function declaration
functionDescription(func) ==
  IF Len(func.jsDocs) > 0 THEN OrElse(Some(func.jsDocs[1].description), <<>>)
  ELSE <<>>

\* getJsDocDescription of a variable declaration: the declaration list has
\* no documentation blocks, the statement may, then the text before the name
variableDescription(variable) ==
  IF Len(variable.statement.jsDocs) > 0
  THEN OrElse(Some(variable.statement.jsDocs[1].description), <<>>)
  ELSE IF variable.leadingComment # None
  THEN commentText(variable.leadingComment[1])
  ELSE <<>>

getJsDocDescription(node) ==
  IF node.kind = "FunctionDeclaration" THEN functionDescription(node)
  ELSE variableDescription(node)

\* getJsDocParamDescription: the comment of the first @param tag, over the
\* documentation blocks of the function, that contains the parameter's name
getJsDocParamDescription(param, func) ==
  LET tags == Flatten([i \in 1..Len(func.jsDocs) |->
                SelectSeq(func.jsDocs[i].tags,
                          LAMBDA tag : tag.tagName = <<"p", "a", "r", "a", "m">>)])
      hits == SelectSeq(tags, LAMBDA tag : tag.comment # None /\ tag.comment[1] # <<>>
                                            /\ Includes(tag.comment[1], param.name))
  IN  IF hits # <<>> THEN hits[1].comment[1] ELSE <<>>

(***************************************************************************)
(* Parameters, functions and constants.                                    *)
(***************************************************************************)
\* paramRequired that forgets the initializer
paramRequired_NoInitializer(param) == ~param.questionToken

\* const required = !param.hasQuestionToken() && !param.hasInitializer()
paramRequired(param) == ~param.questionToken /\ param.initializer = None

\* paramDefaultValue that captures the initializer whatever the option
paramDefaultValue_Always(param, options) ==
  OrElse(IF param.initializer = None THEN None ELSE Some(param.initializer[1].text),
         <<>>)

\* const defaultValue = options.includeDefaultValues
\*   ? param.getInitializer()?.getText() || '' : ''
paramDefaultValue(param, options) ==
  IF Truthy(options.includeDefaultValues)
  THEN OrElse(IF param.initializer = None THEN None
              ELSE Some(param.initializer[1].text), <<>>)
  ELSE <<>>

\* parseParameter for which a captured default value makes a parameter
\* optional
parseParameter_RequiredByOption(param, options, func, decls) ==
  SimpleParam(
    param.name,
    parseType(param.typeNode, getType(param, decls)),
    IF Truthy(options.includeJsDoc) THEN getJsDocParamDescription(param, func) ELSE <<>>,
    paramRequired(param) /\ ~Truthy(options.includeDefaultValues),
    Some(paramDefaultValue(param, options)))

\* parseParameter that reads the @param tag whatever the option
parseParameter_AlwaysDoc(param, options, func, decls) ==
  SimpleParam(
    param.name,
    parseType(param.typeNode, getType(param, decls)),
    getJsDocParamDescription(param, func),
    paramRequired(param),
    Some(paramDefaultValue(param, options)))

\* options are ParseOptions; func is param.getParent(); decls are the
\* interface declarations the type checker sees
parseParameter(param, options, func, decls) ==
  SimpleParam(
    param.name,
    parseType(param.typeNode, getType(param, decls)),
    IF Truthy(options.includeJsDoc) THEN getJsDocParamDescription(param, func) ELSE <<>>,
    paramRequired(param),
    Some(paramDefaultValue(param, options)))

T_anonymous == <<"a", "n", "o", "n", "y", "m", "o", "u", "s">>

parseFunctionDeclaration(func, options, decls) ==
  [name |-> OrElse(func.name, T_anonymous),
   parameters |-> [i \in 1..Len(func.parameters) |->
                     parseParameter(func.parameters[i], options, func, decls)],
   returnType |-> func.returnTypeNode,
   description |-> IF Truthy(options.includeJsDoc)
                   THEN Some(getJsDocDescription(func)) ELSE None]

\* null (None) when the initializer is not an arrow function
parseArrowFunction(variable, options, decls) ==
  IF variable.initializer = None
       \/ variable.initializer[1].kind # "ArrowFunction"
  THEN None
  ELSE LET arrowFunc == variable.initializer[1]
       IN  Some([name |-> variable.name,
                 parameters |-> [i \in 1..Len(arrowFunc.parameters) |->
                                   parseParameter(arrowFunc.parameters[i], options,
                                                  arrowFunc, decls)],
                 returnType |-> arrowFunc.returnTypeNode,
                 description |-> IF Truthy(options.includeJsDoc)
                                 THEN Some(getJsDocDescription(variable)) ELSE None])

\* extractFunctions that lists the function declarations and the arrow
\* functions in the order of their statements
extractFunctions_SourceOrder(sourceFile, options, decls) ==
  Flatten([i \in 1..Len(sourceFile.statements) |->
    LET st == sourceFile.statements[i]
    IN  IF st.kind = "FunctionDeclaration"
        THEN <<parseFunctionDeclaration(st, options, decls)>>
        ELSE IF st.kind = "VariableStatement"
        THEN Flatten([j \in 1..Len(st.declarations) |->
               parseArrowFunction([statement |-> st] @@ st.declarations[j],
                                  options, decls)])
        ELSE <<>>])

\* extractFunctions that also takes a function expression for a function
extractFunctions_FunctionExpressions(sourceFile, options, decls) ==
  LET funcs == getFunctions(sourceFile)
      likes == SelectSeq(getVariableDeclarations(sourceFile),
                 LAMBDA v : v.initializer # None
                            /\ v.initializer[1].kind \in {"ArrowFunction",
                                                          "FunctionExpression"})
  IN  [i \in 1..Len(funcs) |-> parseFunctionDeclaration(funcs[i], options, decls)]
        \o [i \in 1..Len(likes) |->
             [name |-> likes[i].name,
              parameters |->
                [j \in 1..Len(likes[i].initializer[1].parameters) |->
                   parseParameter(likes[i].initializer[1].parameters[j], options,
                                  likes[i].initializer[1], decls)],
              returnType |-> likes[i].initializer[1].returnTypeNode,
              description |-> IF Truthy(options.includeJsDoc)
                              THEN Some(getJsDocDescription(likes[i])) ELSE None]]

extractFunctions(sourceFile, options, decls) ==
  LET funcs == getFunctions(sourceFile)
      arrows == SelectSeq(getVariableDeclarations(sourceFile),
                  LAMBDA v : v.initializer # None
                             /\ v.initializer[1].kind = "ArrowFunction")
  IN  [i \in 1..Len(funcs) |-> parseFunctionDeclaration(funcs[i], options, decls)]
        \o Flatten([i \in 1..Len(arrows) |-> parseArrowFunction(arrows[i], options, decls)])

\* extractConstants that lists every variable with an initializer
extractConstants_AnyInitializer(sourceFile, options) ==
  LET consts == SelectSeq(getVariableDeclarations(sourceFile),
                  LAMBDA v : v.initializer # None)
  IN  [i \in 1..Len(consts) |->
         [name |-> consts[i].name,
          type |-> consts[i].typeText,
          value |-> Some(consts[i].initializer[1].text),
          description |-> IF Truthy(options.includeJsDoc)
                          THEN Some(getJsDocDescription(consts[i])) ELSE None]]

extractConstants(sourceFile, options) ==
  LET consts == SelectSeq(getVariableDeclarations(sourceFile),
                  LAMBDA v : v.initializer # None
                             /\ v.initializer[1].kind # "ArrowFunction")
  IN  [i \in 1..Len(consts) |->
         [name |-> consts[i].name,
          type |-> consts[i].typeText,
          value |-> Some(consts[i].initializer[1].text),
          description |-> IF Truthy(options.includeJsDoc)
                          THEN Some(getJsDocDescription(consts[i])) ELSE None]]

\* parseSourceFile whose constants lose the quotes of a string value
parseSourceFile_UnquotedValues(sourceFile, options, decls) ==
  [functions |-> extractFunctions(sourceFile, options, decls),
   constants |->
     LET cs == extractConstants(sourceFile, options)
     IN  [i \in 1..Len(cs) |-> [cs[i] EXCEPT !.value = Some(StripQuotes(@[1]))]]]

parseSourceFile(sourceFile, options, decls) ==
  [functions |-> extractFunctions(sourceFile, options, decls),
   constants |-> extractConstants(sourceFile, options)]

(***************************************************************************)
(* The parser instance.  project holds the source files registered with    *)
(* the ts-morph Project, call the arguments of the last call, result what  *)
(* it returned (None before the first call and when the call threw),       *)
(* trace, for every parameter of every function of the result, the tier    *)
(* that reduced its type and the number of parseTypeNode invocations,      *)
(* docCalls the number of invocations of getJsDocDescription and           *)
(* getJsDocParamDescription during the last call, and history the calls    *)
(* made so far with what each returned or threw.                           *)
(***************************************************************************)
\* createSourceFile that leaves a source file already at fileName as it is
createSourceFile_KeepExisting(proj, sourceFile) ==
  IF \E i \in 1..Len(proj) : proj[i].fileName = sourceFile.fileName
  THEN proj
  ELSE Append(proj, sourceFile)

\* Project.createSourceFile(fileName, content, {overwrite: true})
createSourceFile(proj, sourceFile) ==
  IF \E i \in 1..Len(proj) : proj[i].fileName = sourceFile.fileName
  THEN [i \in 1..Len(proj) |->
          IF proj[i].fileName = sourceFile.fileName THEN sourceFile ELSE proj[i]]
  ELSE Append(proj, sourceFile)

\* the interface declarations of every file of the project: the files are
\* scripts, whose declarations share the global scope
interfacesInScope(proj) ==
  Flatten([i \in 1..Len(proj) |-> getInterfaces(proj[i])])

\* the parameter lists of the function-likes, in the order of extractFunctions
functionLikes(sourceFile) ==
  LET funcs == getFunctions(sourceFile)
      arrows == SelectSeq(getVariableDeclarations(sourceFile),
                  LAMBDA v : v.initializer # None /\ v.initializer[1].kind = "ArrowFunction")
  IN  [i \in 1..Len(funcs) |-> funcs[i].parameters]
        \o [i \in 1..Len(arrows) |-> arrows[i].initializer[1].parameters]

traceOf(sourceFile, decls) ==
  LET fls == functionLikes(sourceFile)
  IN  [i \in 1..Len(fls) |->
         [j \in 1..Len(fls[i]) |->
            [tier |-> parseTypeTier(fls[i][j].typeNode, getType(fls[i][j], decls)),
             nodeCalls |-> IF fls[i][j].typeNode = None THEN 0
                           ELSE parseTypeNodeCalls(fls[i][j].typeNode[1])]]]

\* createSourceFile's default: no overwrite
createOptions_Default == [overwrite |-> FALSE]

\* the options parseContent passes to createSourceFile
createOptions == [overwrite |-> TRUE]

\* whether the project holds a source file at this path
fileExists(proj, fileName) == \E i \in 1..Len(proj) : proj[i].fileName = fileName

\* the source file the project holds at this path
getSourceFile(proj, fileName) ==
  proj[CHOOSE i \in 1..Len(proj) : proj[i].fileName = fileName]

\* the invocations of getJsDocDescription (one per function-like and per
\* constant) and getJsDocParamDescription (one per parameter) of one call
extractorCalls(sourceFile, options) ==
  IF Truthy(options.includeJsDoc)
  THEN LET fls == functionLikes(sourceFile)
       IN  Len(fls) + Len(Flatten(fls)) + Len(extractConstants(sourceFile, options))
  ELSE 0

\* what a call leaves behind: the project, and what it returned or threw
Returned(proj, sourceFile, options) ==
  [project |-> proj,
   sourceFile |-> Some(sourceFile),
   result |-> Some(parseSourceFile(sourceFile, options, interfacesInScope(proj))),
   trace |-> traceOf(sourceFile, interfacesInScope(proj)),
   docCalls |-> extractorCalls(sourceFile, options),
   error |-> None]

Thrown(proj, error) ==
  [project |-> proj, sourceFile |-> None, result |-> None, trace |-> <<>>,
   docCalls |-> 0, error |-> Some(error)]

\* ParamsParser.parseContent(content, fileName, options) on a parser whose
\* project is proj; sourceFile is content parsed under fileName.
\* createSourceFile throws when the file exists and overwrite is not set.
parseContent(proj, sourceFile, options) ==
  IF ~createOptions.overwrite /\ fileExists(proj, sourceFile.fileName)
  THEN Thrown(proj, "InvalidOperationError")
  ELSE LET created == createSourceFile(proj, sourceFile)
       IN  Returned(created, getSourceFile(created, sourceFile.fileName), options)

\* Project.addSourceFileAtPath(filePath): the source file the project already
\* holds at this path, else the file read from the file system fs and added
\* to the project, None (FileNotFoundError) when there is none
addSourceFileAtPath(proj, fs, filePath) ==
  IF fileExists(proj, filePath) THEN Some(proj)
  ELSE IF \E i \in 1..Len(fs) : fs[i].fileName = filePath
  THEN Some(Append(proj, getSourceFile(fs, filePath)))
  ELSE None

\* ParamsParser.parseFile(filePath, options) on a parser whose project is proj
parseFile(proj, fs, filePath, options) ==
  LET added == addSourceFileAtPath(proj, fs, filePath)
  IN  IF added = None THEN Thrown(proj, "FileNotFoundError")
      ELSE Returned(added[1], getSourceFile(added[1], filePath), options)

Init ==
  /\ project = <<>>
  /\ call = None
  /\ result = None
  /\ trace = <<>>
  /\ docCalls = 0
  /\ history = <<>>

\* a call of method that left r behind, on the parser of the model
\* (fresh = FALSE) or on a parser made for this call (fresh = TRUE); content
\* is None for parseFile, the parsed statements for parseContent; before is
\* the project of the parser of the model when the call was made
Invoke(method, fresh, fileName, content, options, r) ==
  /\ project' = IF fresh THEN project ELSE r.project
  /\ call' = IF r.sourceFile = None THEN None
             ELSE Some([sourceFile |-> r.sourceFile[1], options |-> options])
  /\ result' = r.result
  /\ trace' = r.trace
  /\ docCalls' = r.docCalls
  /\ history' = Append(history,
                  [method |-> method, fresh |-> fresh, fileName |-> fileName,
                   content |-> content, options |-> options,
                   before |-> project,
                   result |-> r.result, error |-> r.error])

\* parser.parseContent(content, fileName, options), content parsed into
\* sourceFile
ParseContent(sourceFile, options) ==
  Invoke("parseContent", FALSE, sourceFile.fileName, Some(sourceFile.statements),
         options, parseContent(project, sourceFile, options))

(***************************************************************************)
(* The source files and options the calls are drawn from.                  *)
(***************************************************************************)
ParseOptions(includeJsDoc, includeDefaultValues) ==
  [includeJsDoc |-> includeJsDoc, includeDefaultValues |-> includeDefaultValues]

OptionalBooleans == {None, Some(FALSE), Some(TRUE)}

AllOptions == {ParseOptions(j, d) : j \in OptionalBooleans, d \in OptionalBooleans}

ParamNames == << <<"a">>, <<"b">>, <<"c">>, <<"d">>, <<"e">> >>

T_f == <<"f">>

T_void == <<"v", "o", "i", "d">>

\* interface Props { label: string; onClick: () => void; disabled?: boolean }
\* interface DateRange { id: number }
\* interface Shape { area(): void }
\* interface Update { id: number }
DeclaredInterfaces ==
  << InterfaceDeclaration(T_Props,
       << PropertySignature(T_label, FALSE, Some(StringT)),
          PropertySignature(<<"o", "n", "C", "l", "i", "c", "k">>, FALSE,
                            Some(FunctionTypeNode)),
          PropertySignature(<<"d", "i", "s", "a", "b", "l", "e", "d">>, TRUE,
                            Some(BooleanT)) >>),
     InterfaceDeclaration(T_DateRange, <<PropertySignature(T_id, FALSE, Some(NumberT))>>),
     InterfaceDeclaration(T_Shape, <<MethodSignature(<<"a", "r", "e", "a">>)>>),
     InterfaceDeclaration(T_Update, <<PropertySignature(T_id, FALSE, Some(NumberT))>>) >>

InterfaceTables == {<<>>, DeclaredInterfaces}

\* /** Doc @param a the a value */
FunctionDoc ==
  JSDoc(<<"D", "o", "c">>,
        <<JSDocTag(<<"p", "a", "r", "a", "m">>,
                   Some(<<"t", "h", "e", " ", "a", " ", "v", "a", "l", "u", "e">>))>>)

\* function f(a: T): void {} after the interfaces
AnnotatedFiles ==
  { SourceFile("temp.ts",
      ifaces \o <<FunctionDeclaration(Some(T_f),
                    <<ParameterDeclaration(ParamNames[1], Some(t), FALSE, None)>>,
                    Some(T_void), <<>>)>>) :
      ifaces \in InterfaceTables, t \in TypeNodes }

\* 25 and "Hello"
NumberInitializer == Expression("NumericLiteral", <<"2", "5">>)

StringInitializer ==
  Expression("StringLiteral", <<DQ, "H", "e", "l", "l", "o", DQ>>)

\* what a parameter is drawn from, but for its name:
\* x, x: string, x?: string, x = 25, x = "Hello", x?: string = 25
ParameterPool ==
  { [typeNode |-> None, questionToken |-> FALSE, initializer |-> None],
    [typeNode |-> Some(StringT), questionToken |-> FALSE, initializer |-> None],
    [typeNode |-> Some(StringT), questionToken |-> TRUE, initializer |-> None],
    [typeNode |-> None, questionToken |-> FALSE, initializer |-> Some(NumberInitializer)],
    [typeNode |-> None, questionToken |-> FALSE, initializer |-> Some(StringInitializer)],
    [typeNode |-> Some(StringT), questionToken |-> TRUE,
     initializer |-> Some(NumberInitializer)] }

ParameterLists ==
  { [i \in 1..Len(ps) |->
       ParameterDeclaration(ParamNames[i], ps[i].typeNode, ps[i].questionToken,
                            ps[i].initializer)] :
      ps \in SeqsOf(ParameterPool, 0, MaxParams) }

\* function f(...) {} or const f = (...) => {}
ParameterFiles ==
  { SourceFile("temp.ts", <<FunctionDeclaration(Some(T_f), ps, None, <<FunctionDoc>>)>>) :
      ps \in ParameterLists }
  \cup
  { SourceFile("temp.ts",
      <<VariableStatement(
          <<VariableDeclaration(T_f,
              Some(FunctionLikeExpression("ArrowFunction", <<"(", ")", "=", ">", "0">>,
                                          ps, None)),
              <<"(", ")", " ", "=", ">", " ", "n", "u", "m", "b", "e", "r">>, None)>>,
          <<FunctionDoc>>)>>) :
      ps \in ParameterLists }

MaxDeclarations == 2

VariableNames == << <<"x">>, <<"y">>, <<"z">>, <<"w">> >>

T_Event == <<"E", "v", "e", "n", "t">>

\* what a variable is drawn from, but for its name:
\* let x: number;  const x = 42;  const x = "Hello";
\* const x = (a: string) => {};  const x = function (e: Event) {}
InitializerPool ==
  { [initializer |-> None, typeText |-> T_number],
    [initializer |-> Some(Expression("NumericLiteral", <<"4", "2">>)),
     typeText |-> <<"4", "2">>],
    [initializer |-> Some(StringInitializer),
     typeText |-> <<DQ, "H", "e", "l", "l", "o", DQ>>],
    [initializer |->
       Some(FunctionLikeExpression("ArrowFunction",
              <<"(", "a", ":", " ">> \o T_string \o <<")", " ", "=", ">", " ", "{", "}">>,
              <<ParameterDeclaration(ParamNames[1], Some(StringT), FALSE, None)>>, None)),
     typeText |-> <<"(", "a", ":", " ">> \o T_string \o <<")", " ", "=", ">", " ">> \o T_void],
    [initializer |->
       Some(FunctionLikeExpression("FunctionExpression",
              <<"f", "u", "n", "c", "t", "i", "o", "n", " ", "(", "e", ":", " ">>
                \o T_Event \o <<")", " ", "{", "}">>,
              <<ParameterDeclaration(ParamNames[5], Some(RefT(T_Event)), FALSE, None)>>,
              None)),
     typeText |-> <<"(", "e", ":", " ">> \o T_Event \o <<")", " ", "=", ">", " ">> \o T_void] }

\* /** Doc */ before the statement, or nothing
StatementDocs == {<<>>, <<JSDoc(<<"D", "o", "c">>, <<>>)>>}

\* the variable statements of one declaration each, named x, y, ...
VariableStatementLists ==
  { [i \in 1..Len(vs) |->
       VariableStatement(
         <<VariableDeclaration(VariableNames[i], vs[i][1].initializer,
                               vs[i][1].typeText, None)>>,
         vs[i][2])] :
      vs \in SeqsOf(InitializerPool \X StatementDocs, 0, MaxDeclarations) }

\* a documented function f(a: string) followed by variable statements
DeclarationFiles ==
  { SourceFile("temp.ts",
      <<FunctionDeclaration(Some(T_f),
          <<ParameterDeclaration(ParamNames[1], Some(StringT), FALSE, None)>>,
          None, <<FunctionDoc>>)>> \o sts) :
      sts \in VariableStatementLists }

\* /** @deprecated */: a documentation block without description
TagOnlyDoc ==
  JSDoc(<<>>, <<JSDocTag(<<"d", "e", "p", "r", "e", "c", "a", "t", "e", "d">>, None)>>)

\* the documentation of a variable statement and the capture of the scan:
\*   const x            /** Doc */ const x        const /** The limit */ x
\*   /** @deprecated */ const x
\*   /** @deprecated */ const /** The limit */ x
DocumentationPool ==
  { [jsDocs |-> <<>>, leadingComment |-> None],
    [jsDocs |-> <<JSDoc(<<"D", "o", "c">>, <<>>)>>, leadingComment |-> None],
    [jsDocs |-> <<>>,
     leadingComment |-> Some(<<" ", "T", "h", "e", " ", "l", "i", "m", "i", "t", " ">>)],
    [jsDocs |-> <<TagOnlyDoc>>, leadingComment |-> None],
    [jsDocs |-> <<TagOnlyDoc>>,
     leadingComment |->
       Some(<<" ", "@", "d", "e", "p", "r", "e", "c", "a", "t", "e", "d", " ", "*", "/",
              " ", "c", "o", "n", "s", "t", " ", "/", "*", "*",
              " ", "T", "h", "e", " ", "l", "i", "m", "i", "t", " ">>)] }

\* one variable x, a constant or an arrow function, with its documentation
DocumentedFiles ==
  { SourceFile("temp.ts",
      <<VariableStatement(
          <<VariableDeclaration(VariableNames[1], init.initializer, init.typeText,
                                doc.leadingComment)>>,
          doc.jsDocs)>>) :
      init \in {i \in InitializerPool :
                 i.initializer # None
                   /\ i.initializer[1].kind \in {"NumericLiteral", "ArrowFunction"}},
      doc \in DocumentationPool }

\* function f(a: string, b: number) {}    function g() {}
\* const x = (b: number, a: string) => {}  const y = 42
StatementPool ==
  { FunctionDeclaration(Some(T_f),
      <<ParameterDeclaration(ParamNames[1], Some(StringT), FALSE, None),
        ParameterDeclaration(ParamNames[2], Some(NumberT), FALSE, None)>>, None, <<>>),
    FunctionDeclaration(Some(<<"g">>), <<>>, None, <<>>),
    VariableStatement(
      <<VariableDeclaration(VariableNames[1],
          Some(FunctionLikeExpression("ArrowFunction", <<"(", ")", "=", ">", "0">>,
                 <<ParameterDeclaration(ParamNames[2], Some(NumberT), FALSE, None),
                   ParameterDeclaration(ParamNames[1], Some(StringT), FALSE, None)>>,
                 None)),
          <<"(", ")", " ", "=", ">", " ">> \o T_number, None)>>, <<>>),
    VariableStatement(
      <<VariableDeclaration(VariableNames[2],
          Some(Expression("NumericLiteral", <<"4", "2">>)), <<"4", "2">>, None)>>,
      <<>>) }

\* the files of up to MaxDeclarations + 1 of these statements, in any order
OrderedFiles ==
  { SourceFile("temp.ts", sts) :
      sts \in {ss \in SeqsOf(StatementPool, 0, MaxDeclarations + 1) :
                 \A i, j \in 1..Len(ss) : i # j => ss[i] # ss[j]} }

(***************************************************************************)
(* One call on a fresh parser.                                             *)
(***************************************************************************)
\* an annotated parameter, default options
ParseAnnotated ==
  /\ result = None
  /\ \E sourceFile \in AnnotatedFiles : ParseContent(sourceFile, ParseOptions(None, None))

\* parameters with and without annotation, optional marker and initializer
ParseParameters ==
  /\ result = None
  /\ \E sourceFile \in ParameterFiles, options \in AllOptions :
       ParseContent(sourceFile, options)

\* variables with and without initializer after a function
ParseDeclarations ==
  /\ result = None
  /\ \E sourceFile \in DeclarationFiles, options \in AllOptions :
       ParseContent(sourceFile, options)

\* a variable with documentation before the statement or before its name
ParseDocumented ==
  /\ result = None
  /\ \E sourceFile \in DocumentedFiles, options \in AllOptions :
       ParseContent(sourceFile, options)

\* functions, arrow functions and constants in any order
ParseOrdered ==
  /\ result = None
  /\ \E sourceFile \in OrderedFiles : ParseContent(sourceFile, ParseOptions(None, None))

Next ==
  \/ ParseAnnotated
  \/ ParseParameters
  \/ ParseDeclarations
  \/ ParseDocumented
  \/ ParseOrdered

Spec == Init /\ [][Next]_vars

(***************************************************************************)
(* What the claims speak of: the parameters written in the file of the     *)
(* last call and the parameters reported for them.                         *)
(***************************************************************************)
Called == result # None

\* written[i][j] is the j-th parameter of the i-th function-like
written == functionLikes(call[1].sourceFile)

\* reported(o) is what the result holds for the written parameter o = <<i, j>>
reported(o) == result[1].functions[o[1]].parameters[o[2]]

Occurrences ==
  UNION {{<<i, j>> : j \in 1..Len(written[i])} : i \in 1..Len(written)}

\* the annotation of the written parameter o, when it has one
annotation(o) == written[o[1]][o[2]].typeNode[1]

Annotated == {o \in Occurrences : written[o[1]][o[2]].typeNode # None}

\* the interface declarations the type checker sees during the last call
scope == interfacesInScope(project)

\* the shape the reducer gives a parameter annotated with node
reduce(node) ==
  parseType(Some(node), getType(ParameterDeclaration(ParamNames[1], Some(node),
                                                     FALSE, None), scope))

\* a union whose members are all string literals
StringLiteralUnion(node) ==
  /\ node.kind = "UnionType"
  /\ \A k \in 1..Len(node.typeNodes) :
       /\ node.typeNodes[k].kind = "LiteralType"
       /\ node.typeNodes[k].literal.kind = "StringLiteral"

\* the text of a string literal between its surrounding quotes
Unquoted(text) == SubSeq(text, 2, Len(text) - 1)

(***************************************************************************)
(* C1.  A parameter annotated string, number, boolean or Date is reported  *)
(* with exactly that primitive, by the syntactic tier, in one invocation   *)
(* of parseTypeNode.                                                       *)
(***************************************************************************)
PrimitiveOf(node) ==
  CASE node.kind = "StringKeyword" -> "string"
    [] node.kind = "NumberKeyword" -> "number"
    [] node.kind = "BooleanKeyword" -> "boolean"
    [] node.kind = "TypeReference" /\ node.typeName = T_Date -> "date"
    [] OTHER -> "none"

\* C1: the annotations string, number, boolean and Date give the primitive
\* of that kind, decided by the syntactic tier without recursion
C1_PrimitiveAnnotation ==
  Called =>
    \A o \in Annotated :
      PrimitiveOf(annotation(o)) # "none" =>
        /\ reported(o).type = [type |-> PrimitiveOf(annotation(o))]
        /\ trace[o[1]][o[2]] = [tier |-> "syntactic", nodeCalls |-> 1]

C1_Witness ==
  /\ Called
  /\ \E o \in Annotated :
       /\ annotation(o) = RefT(T_Date)
       /\ reported(o).type = [type |-> "date"]
       /\ trace[o[1]][o[2]].tier = "syntactic"

(***************************************************************************)
(* C2.  A union of string literals gives the enum of the literal texts     *)
(* without their surrounding quotes.                                       *)
(***************************************************************************)
\* C2: a union of string literals is reported as Enum, one value per member
\* in declaration order, each the literal's text without its surrounding quotes
C2_EnumOfUnquotedLiterals ==
  Called =>
    \A o \in Annotated :
      StringLiteralUnion(annotation(o)) =>
        reported(o).type =
          [type |-> "enum",
           values |-> [k \in 1..Len(annotation(o).typeNodes) |->
                         Unquoted(annotation(o).typeNodes[k].literal.text)]]

(***************************************************************************)
(* C3.  Array shapes.                                                      *)
(***************************************************************************)
\* the item every array shape holds, but for its type
ItemOf(type) ==
  [name |-> T_item, type |-> type, description |-> <<>>, required |-> TRUE,
   defaultValue |-> Some(<<>>)]

RECURSIVE ArraysHaveOneItem(_)
\* every array shape in shape, at any depth, has exactly one item, named
\* "item", required, with empty description and default value
ArraysHaveOneItem(shape) ==
  CASE shape.type = "array" ->
         /\ Len(shape.items) = 1
         /\ shape.items[1] = ItemOf(shape.items[1].type)
         /\ ArraysHaveOneItem(shape.items[1].type)
    [] shape.type = "object" ->
         \A k \in 1..Len(shape.properties) :
           ArraysHaveOneItem(shape.properties[k].value.type)
    [] OTHER -> TRUE

\* a written `T[]` or `Array<T>`
WrittenArray(node) ==
  \/ node.kind = "ArrayType"
  \/ node.kind = "TypeReference" /\ node.typeName = T_Array /\ node.typeArguments # <<>>

\* the T of a written `T[]` or `Array<T>`
ElementOf(node) ==
  IF node.kind = "ArrayType" THEN node.elementTypeNode ELSE node.typeArguments[1]

\* the syntactic tier's reduction of node, Primitive string when it leaves
\* node unresolved
SyntacticOrString(node) ==
  IF parseTypeNode(node) # Null THEN parseTypeNode(node) ELSE [type |-> "string"]

RECURSIVE ArraysReduced(_, _, _)
\* shape is what the syntactic tier made of node: every written array the
\* tier went through has the single item whose type is the reduction of T,
\* by both tiers (twoTier) or by the syntactic tier with Primitive string
\* for an unresolved T
ArraysReduced(node, shape, twoTier) ==
  CASE WrittenArray(node) ->
         /\ shape.type = "array"
         /\ shape.items = <<ItemOf(IF twoTier THEN reduce(ElementOf(node))
                                    ELSE SyntacticOrString(ElementOf(node)))>>
         /\ parseTypeNode(ElementOf(node)) # Null =>
              ArraysReduced(ElementOf(node), shape.items[1].type, twoTier)
    [] node.kind = "UnionType" /\ shape.type # "enum" ->
         ArraysReduced(node.typeNodes[1], shape, twoTier)
    [] node.kind = "TypeLiteral" ->
         \A k \in 1..Len(node.members) :
           LET m == node.members[k]
           IN  (/\ m.kind = "PropertySignature"
                /\ m.typeNode # None
                /\ parseTypeNode(m.typeNode[1]) # Null)
               => ArraysReduced(m.typeNode[1], Get(shape.properties, m.name).type,
                                twoTier)
    [] OTHER -> TRUE

\* C3 as claimed: every array shape has the one item "item", and a written
\* `T[]` or `Array<T>` has the reduction of T as its item's type
C3_ArrayItemIsReductionOfT ==
  Called =>
    \A o \in Occurrences :
      /\ ArraysHaveOneItem(reported(o).type)
      /\ (o \in Annotated /\ trace[o[1]][o[2]].tier = "syntactic")
           => ArraysReduced(annotation(o), reported(o).type, TRUE)

\* C3 as amended: every array shape has the one item "item", and a `T[]` or
\* `Array<T>` reduced by the syntactic tier has as its item's type the
\* syntactic tier's reduction of T, or Primitive string when T is unresolved
C3_ArrayItemIsSyntacticReductionOfT ==
  Called =>
    \A o \in Occurrences :
      /\ ArraysHaveOneItem(reported(o).type)
      /\ (o \in Annotated /\ trace[o[1]][o[2]].tier = "syntactic")
           => ArraysReduced(annotation(o), reported(o).type, FALSE)

\* Array<{ id: number; tags: string[] }>
C3_Witness ==
  /\ Called
  /\ \E o \in Annotated :
       /\ annotation(o) =
            TypeReferenceNode(T_Array,
              <<TypeLiteralNode(<<PropertySignature(T_id, FALSE, Some(NumberT)),
                                  PropertySignature(T_tags, FALSE,
                                                    Some(ArrayTypeNode(StringT)))>>)>>)
       /\ reported(o).type =
            [type |-> "array",
             items |-> <<ItemOf(
               [type |-> "object",
                properties |->
                  <<[key |-> T_id,
                     value |-> [name |-> T_id, type |-> [type |-> "number"],
                                description |-> <<>>, required |-> TRUE,
                                defaultValue |-> Some(<<>>)]],
                    [key |-> T_tags,
                     value |-> [name |-> T_tags,
                                type |-> [type |-> "array",
                                          items |-> <<ItemOf([type |-> "string"])>>],
                                description |-> <<>>, required |-> TRUE,
                                defaultValue |-> Some(<<>>)]]>>])>>]

(***************************************************************************)
(* C4.  Inline object types.                                               *)
(***************************************************************************)
\* the plain property members of a member list, in declaration order
PropertyMembers(members) == SelectSeq(members, LAMBDA m : m.kind = "PropertySignature")

\* shape is the object of the property members of members: keyed by name in
\* declaration order, required unless marked optional, typed by the
\* reduction of the member's annotation (twoTier: by both tiers; otherwise
\* by the syntactic tier, Primitive string when unresolved) and Primitive
\* string without annotation
ObjectOfMembers(shape, members, twoTier) ==
  LET props == PropertyMembers(members)
  IN  /\ shape.type = "object"
      /\ Keys(shape.properties) = [k \in 1..Len(props) |-> props[k].name]
      /\ \A k \in 1..Len(props) :
           LET value == shape.properties[k].value
           IN  /\ value.name = props[k].name
               /\ value.required = ~props[k].questionToken
               /\ value.type =
                    IF props[k].typeNode = None THEN [type |-> "string"]
                    ELSE IF twoTier THEN reduce(props[k].typeNode[1])
                    ELSE SyntacticOrString(props[k].typeNode[1])

\* C4 as claimed: an inline object annotation gives the Object of its plain
\* property members, each typed by the reduction of its annotation
C4_InlineObjectMembersReduced ==
  Called =>
    \A o \in Annotated :
      annotation(o).kind = "TypeLiteral" =>
        ObjectOfMembers(reported(o).type, annotation(o).members, TRUE)

\* C4 as amended: an inline object annotation gives the Object of its plain
\* property members, in declaration order and keyed by name, each required
\* unless marked optional and typed by the syntactic tier's reduction of its
\* annotation, Primitive string when the member has no annotation or the
\* syntactic tier leaves it unresolved; other members give no property
C4_InlineObjectMembersSyntactic ==
  Called =>
    \A o \in Annotated :
      annotation(o).kind = "TypeLiteral" =>
        ObjectOfMembers(reported(o).type, annotation(o).members, FALSE)

\* { id: string; email: string; label?: string } and an object type with a method
C4_Witness ==
  /\ Called
  /\ \E o \in Annotated :
       /\ annotation(o) =
            TypeLiteralNode(<<PropertySignature(T_id, FALSE, Some(StringT)),
                              PropertySignature(T_email, FALSE, Some(StringT)),
                              PropertySignature(T_label, TRUE, Some(StringT))>>)
       /\ Keys(reported(o).type.properties) = <<T_id, T_email, T_label>>
       /\ [k \in 1..3 |-> reported(o).type.properties[k].value.required]
            = <<TRUE, TRUE, FALSE>>

(***************************************************************************)
(* C5.  A parameter annotated with the name of an interface.               *)
(***************************************************************************)
\* the members of every declaration of the interface named name
InterfaceMembers(name) ==
  Flatten([k \in 1..Len(declarationsOf(name, scope)) |->
             declarationsOf(name, scope)[k].members])

\* a reference, without type arguments, to an interface that declares at
\* least one property
InterfaceReference(node) ==
  /\ node.kind = "TypeReference"
  /\ node.typeArguments = <<>>
  /\ PropertyMembers(InterfaceMembers(node.typeName)) # <<>>

\* C5: a parameter annotated with the name of an interface that declares a
\* property is reported, by the semantic tier, as the Object of the
\* interface's property members, built as for an inline object
C5_InterfaceObject ==
  Called =>
    \A o \in Annotated :
      InterfaceReference(annotation(o)) =>
        /\ trace[o[1]][o[2]].tier = "semantic"
        /\ ObjectOfMembers(reported(o).type, InterfaceMembers(annotation(o).typeName),
                           FALSE)

(***************************************************************************)
(* C6 and C7.  required and defaultValue of a function parameter.          *)
(***************************************************************************)
\* C6: a parameter is reported not required exactly when it has an optional
\* marker or a default initializer, whatever the options
C6_RequiredIffNoMarkerNoInitializer ==
  Called =>
    \A o \in Occurrences :
      reported(o).required = FALSE
        <=> (written[o[1]][o[2]].questionToken \/ written[o[1]][o[2]].initializer # None)

\* (a: string, b?: string, c = 25) gives true, false, false
C6_Witness ==
  /\ Called
  /\ \E i \in 1..Len(written) :
       /\ written[i] =
            <<ParameterDeclaration(ParamNames[1], Some(StringT), FALSE, None),
              ParameterDeclaration(ParamNames[2], Some(StringT), TRUE, None),
              ParameterDeclaration(ParamNames[3], None, FALSE, Some(NumberInitializer))>>
       /\ [j \in 1..3 |-> reported(<<i, j>>).required] = <<TRUE, FALSE, FALSE>>

\* C7: defaultValue is the empty text when includeDefaultValues is false or
\* absent; when it is true it is the source text of the initializer, quotes
\* included, and the empty text without initializer
C7_DefaultValueFollowsOption ==
  Called =>
    \A o \in Occurrences :
      LET init == written[o[1]][o[2]].initializer
      IN  reported(o).defaultValue =
            IF call[1].options.includeDefaultValues = Some(TRUE) /\ init # None
            THEN Some(init[1].text)
            ELSE Some(<<>>)

\* with the option set, `c = "Hello"` has the default value "Hello", quoted
C7_Witness ==
  /\ Called
  /\ call[1].options.includeDefaultValues = Some(TRUE)
  /\ \E o \in Occurrences :
       /\ written[o[1]][o[2]].initializer = Some(StringInitializer)
       /\ reported(o).defaultValue = Some(<<DQ, "H", "e", "l", "l", "o", DQ>>)

(***************************************************************************)
(* C8.  The reducer is total.                                              *)
(***************************************************************************)
RECURSIVE IsShape(_)
\* shape is one of the four shapes, and so is every shape inside it
IsShape(shape) ==
  CASE shape.type \in {"string", "number", "boolean", "date"} ->
         DOMAIN shape = {"type"}
    [] shape.type = "enum" ->
         DOMAIN shape = {"type", "values"}
    [] shape.type = "object" ->
         /\ DOMAIN shape = {"type", "properties"}
         /\ \A k \in 1..Len(shape.properties) : IsShape(shape.properties[k].value.type)
    [] shape.type = "array" ->
         /\ DOMAIN shape = {"type", "items"}
         /\ \A k \in 1..Len(shape.items) : IsShape(shape.items[k].type)
    [] OTHER -> FALSE

\* an occurrence no rule of either tier matches: nothing written and nothing
\* to infer from, or `any`, a function type or a name that is not declared
NothingMatches(param) ==
  \/ param.typeNode = None /\ param.initializer = None
  \/ /\ param.typeNode # None
     /\ \/ param.typeNode[1].kind \in {"AnyKeyword", "FunctionType"}
        \/ /\ param.typeNode[1].kind = "TypeReference"
           /\ param.typeNode[1].typeName \notin {T_Date, T_Array}
           /\ declarationsOf(param.typeNode[1].typeName, scope) = <<>>

\* C8: every parameter, annotated or not, is reported with one of the four
\* shapes, never with the unresolved marker, and with Primitive string when
\* no rule matches
C8_ReducerTotal ==
  Called =>
    \A o \in Occurrences :
      /\ IsShape(reported(o).type)
      /\ NothingMatches(written[o[1]][o[2]]) => reported(o).type = [type |-> "string"]

\* a function type is resolved by neither tier and reported as Primitive string
C8_Witness ==
  /\ Called
  /\ \E o \in Annotated :
       /\ annotation(o) = FunctionTypeNode
       /\ trace[o[1]][o[2]].tier = "semantic"
       /\ reported(o).type = [type |-> "string"]

(***************************************************************************)
(* C9 and C10.  Unions.                                                    *)
(***************************************************************************)
\* C9: a union that is not made only of string literals is reported as the
\* reduction of its first member alone
C9_FirstMemberAlone ==
  Called =>
    \A o \in Annotated :
      (annotation(o).kind = "UnionType" /\ ~StringLiteralUnion(annotation(o))) =>
        reported(o).type = reduce(annotation(o).typeNodes[1])

\* C10: a union is reported as Enum exactly when every member is a string
\* literal
C10_EnumIffAllStringLiterals ==
  Called =>
    \A o \in Annotated :
      annotation(o).kind = "UnionType" =>
        (reported(o).type.type = "enum" <=> StringLiteralUnion(annotation(o)))

(***************************************************************************)
(* Several calls, on one parser and through the convenience functions.     *)
(***************************************************************************)
MaxCalls == 3

\* new ParamsParser(): a project without source files
newProject == <<>>

\* the function parseContent(content, fileName, options) of the module
parseContentFunction(sourceFile, options) == parseContent(newProject, sourceFile, options)

\* the function parseFile(filePath, options) of the module
parseFileFunction(fs, filePath, options) == parseFile(newProject, fs, filePath, options)

\* ParamsParser.parseFile(filePath, options), called on the instance
ParseFile(fs, filePath, options) ==
  Invoke("parseFile", FALSE, filePath, None, options,
         parseFile(project, fs, filePath, options))

\* function f(a: Props): void {}
UsesProps ==
  <<FunctionDeclaration(Some(T_f),
      <<ParameterDeclaration(ParamNames[1], Some(RefT(T_Props)), FALSE, None)>>,
      Some(T_void), <<FunctionDoc>>)>>

\* interface Props { label: string }
DeclaresProps ==
  <<InterfaceDeclaration(T_Props, <<PropertySignature(T_label, FALSE, Some(StringT))>>)>>

\* interface Props { id: number }  function f(a: Props): void {}  const x = 42
DeclaresAndUsesProps ==
  <<InterfaceDeclaration(T_Props, <<PropertySignature(T_id, FALSE, Some(NumberT))>>)>>
    \o UsesProps
    \o <<VariableStatement(
           <<VariableDeclaration(VariableNames[1],
               Some(Expression("NumericLiteral", <<"4", "2">>)), <<"4", "2">>, None)>>,
           <<>>)>>

SessionContents == {UsesProps, DeclaresProps, DeclaresAndUsesProps}

\* the names content is registered under
FileNames == {"a.ts", "b.ts"}

\* the files on disk: lib.ts; there is no a.ts and no b.ts
FileSystem == <<SourceFile("lib.ts", DeclaresProps)>>

\* the paths parseFile is called with
FilePaths == {"lib.ts", "a.ts"}

SessionOptions == {ParseOptions(None, None), ParseOptions(Some(TRUE), None)}

DefaultOptions == ParseOptions(None, None)

SessionParseContent ==
  /\ Len(history) < MaxCalls
  /\ \E content \in SessionContents, fileName \in FileNames, options \in SessionOptions :
       ParseContent(SourceFile(fileName, content), options)

SessionParseFile ==
  /\ Len(history) < MaxCalls
  /\ \E filePath \in FilePaths : ParseFile(FileSystem, filePath, DefaultOptions)

\* parseContent(content, 'a.ts'): a parser made for the call
FreshParseContent ==
  /\ Len(history) < MaxCalls
  /\ \E content \in SessionContents :
       Invoke("parseContent", TRUE, "a.ts", Some(content), DefaultOptions,
              parseContentFunction(SourceFile("a.ts", content), DefaultOptions))

\* parseFile(filePath): a parser made for the call
FreshParseFile ==
  /\ Len(history) < MaxCalls
  /\ \E filePath \in FilePaths :
       Invoke("parseFile", TRUE, filePath, None, DefaultOptions,
              parseFileFunction(FileSystem, filePath, DefaultOptions))

NextSession ==
  SessionParseContent \/ SessionParseFile \/ FreshParseContent \/ FreshParseFile

SpecSession == Init /\ [][NextSession]_vars

(***************************************************************************)
(* C11..C14.  The variables of the file of the last call, and where the    *)
(* result lists them.                                                      *)
(***************************************************************************)
variables == getVariableDeclarations(call[1].sourceFile)

IsArrowFunction(v) ==
  v.initializer # None /\ v.initializer[1].kind = "ArrowFunction"

IsFunctionExpression(v) ==
  v.initializer # None /\ v.initializer[1].kind = "FunctionExpression"

\* the number of entries of list with this name
Listed(list, name) == Cardinality({i \in 1..Len(list) : list[i].name = name})

\* C11: a variable initialized with an anonymous function expression adds
\* exactly one entry to constants and none to functions
C11_FunctionExpressionIsConstant ==
  Called =>
    \A k \in 1..Len(variables) :
      IsFunctionExpression(variables[k]) =>
        /\ Listed(result[1].constants, variables[k].name) = 1
        /\ Listed(result[1].functions, variables[k].name) = 0

C11_Witness ==
  /\ Called
  /\ \E k \in 1..Len(variables) :
       /\ IsFunctionExpression(variables[k])
       /\ Listed(result[1].constants, variables[k].name) = 1
       /\ \E j \in 1..Len(variables) : IsArrowFunction(variables[j])

\* where a variable is listed: <<in functions, in constants>>
Listing(v) ==
  <<Listed(result[1].functions, v.name), Listed(result[1].constants, v.name)>>

\* C12: every variable is listed once in functions when its initializer is
\* a function expression or an arrow function, once in constants when it
\* has another initializer, and nowhere when it has none
C12_FunctionLikeConstantOrNeither ==
  Called =>
    \A k \in 1..Len(variables) :
      Listing(variables[k]) =
        IF IsArrowFunction(variables[k]) \/ IsFunctionExpression(variables[k])
        THEN <<1, 0>>
        ELSE IF variables[k].initializer # None THEN <<0, 1>>
        ELSE <<0, 0>>

\* C12 (amended): every variable is listed once in functions when its
\* initializer is an arrow function, once in constants when it has any other
\* initializer, a function expression included, and nowhere when it has none
C12_ArrowConstantOrNeither ==
  Called =>
    \A k \in 1..Len(variables) :
      Listing(variables[k]) =
        IF IsArrowFunction(variables[k]) THEN <<1, 0>>
        ELSE IF variables[k].initializer # None THEN <<0, 1>>
        ELSE <<0, 0>>

C12_Witness ==
  /\ Called
  /\ \E j, k \in 1..Len(variables) :
       /\ IsArrowFunction(variables[j]) /\ Listing(variables[j]) = <<1, 0>>
       /\ variables[k].initializer = None /\ Listing(variables[k]) = <<0, 0>>

\* the variables that are neither arrow functions nor without initializer
constantVariables ==
  SelectSeq(variables, LAMBDA v : v.initializer # None /\ ~IsArrowFunction(v))

\* C13: the constants are the variables with a non-arrow initializer, in
\* order, each with its name, the rendered text of its type and the source
\* text of its initializer, whatever the options
C13_ConstantNameTypeValue ==
  Called =>
    /\ Len(result[1].constants) = Len(constantVariables)
    /\ \A k \in 1..Len(constantVariables) :
         /\ result[1].constants[k].name = constantVariables[k].name
         /\ result[1].constants[k].type = constantVariables[k].typeText
         /\ result[1].constants[k].value = Some(constantVariables[k].initializer[1].text)

C13_Witness ==
  /\ Called
  /\ Truthy(call[1].options.includeJsDoc)
  /\ \E k \in 1..Len(result[1].constants) :
       /\ result[1].constants[k].value = Some(StringInitializer.text)
       /\ result[1].constants[k].type = <<DQ, "H", "e", "l", "l", "o", DQ>>

RECURSIVE NestedParams(_)
\* the parameter records inside a shape: the properties of an object and
\* the items of an array, and those inside their types
NestedParams(shape) ==
  LET direct == IF shape.type = "object"
                THEN {shape.properties[i].value : i \in 1..Len(shape.properties)}
                ELSE IF shape.type = "array"
                THEN {shape.items[i] : i \in 1..Len(shape.items)}
                ELSE {}
  IN  direct \cup UNION {NestedParams(p.type) : p \in direct}

\* the parameters of the functions of the result
TopParams ==
  UNION {{result[1].functions[i].parameters[j] :
            j \in 1..Len(result[1].functions[i].parameters)} :
         i \in 1..Len(result[1].functions)}

\* every parameter record of the result, at any nesting level
AllParams == TopParams \cup UNION {NestedParams(p.type) : p \in TopParams}

Calls == 1..Len(history)

\* two calls with the same arguments, both on the instance or both fresh
SameCall(i, j) ==
  /\ history[i].method = history[j].method
  /\ history[i].fresh = history[j].fresh
  /\ history[i].fileName = history[j].fileName
  /\ history[i].content = history[j].content
  /\ history[i].options = history[j].options

\* what a call gave: its result, or the error it threw
Outcome(i) == <<history[i].result, history[i].error>>

OnFreshInstance(i) ==
  LET r == IF history[i].method = "parseContent"
           THEN parseContent(newProject,
                             SourceFile(history[i].fileName, history[i].content[1]),
                             history[i].options)
           ELSE parseFile(newProject, FileSystem, history[i].fileName, history[i].options)
  IN  <<r.result, r.error>>

\* C16: a parseContent on the instance, after calls on files with other
\* names only, gives what it gives on a fresh instance
C16_EarlierFilesDoNotMatter ==
  \A i \in Calls :
    (/\ history[i].method = "parseContent"
     /\ ~history[i].fresh
     /\ ~fileExists(history[i].before, history[i].fileName))
    => Outcome(i) = OnFreshInstance(i)

\* the project with the file at sourceFile's name replaced by sourceFile
Replaced(proj, sourceFile) ==
  [k \in 1..Len(proj) |->
     IF proj[k].fileName = sourceFile.fileName THEN sourceFile ELSE proj[k]]

\* the project the call i left to the next call
After(i) == IF i = Len(history) THEN project ELSE history[i + 1].before

\* the parseContent calls on the instance under a name that was registered
ReRegistrations ==
  {i \in Calls : /\ history[i].method = "parseContent"
                  /\ ~history[i].fresh
                  /\ fileExists(history[i].before, history[i].fileName)}

\* C17: parseContent under a name that is registered returns the result for
\* the new content alone, as if the earlier content had never been there,
\* and leaves the project with the new content as the one file of that name
C17_ReRegistrationOverwrites ==
  \A i \in ReRegistrations :
    LET c2 == SourceFile(history[i].fileName, history[i].content[1])
    IN  /\ history[i].error = None
        /\ history[i].result =
             Some(parseSourceFile(c2, history[i].options,
                                  interfacesInScope(Replaced(history[i].before, c2))))
        /\ After(i) = Replaced(history[i].before, c2)
        /\ Cardinality({k \in 1..Len(After(i)) :
                          After(i)[k].fileName = history[i].fileName}) = 1

\* interface Props, f and x registered as a.ts, then f alone: Props is gone
C17_Witness ==
  /\ Len(history) = 2
  /\ 2 \in ReRegistrations
  /\ history[1].content = Some(DeclaresAndUsesProps)
  /\ history[2].content = Some(UsesProps)
  /\ history[2].result # None
  /\ history[2].result[1].constants = <<>>
  /\ history[2].result[1].functions[1].parameters[1].type = SimpleType("string")
  /\ project = <<SourceFile(history[2].fileName, UsesProps)>>

\* the paths that are not on disk
Missing(filePath) == \A k \in 1..Len(FileSystem) : FileSystem[k].fileName # filePath

\* C18: parseFile on a path that does not exist throws and returns no result
C18_MissingFileThrows ==
  \A i \in Calls :
    (history[i].method = "parseFile" /\ Missing(history[i].fileName))
    => (history[i].error # None /\ history[i].result = None)

(***************************************************************************)
(* C19.  The defaultValue of every parameter record.                       *)
(***************************************************************************)
\* the parameter records below the top level
InnerParams == UNION {NestedParams(p.type) : p \in TopParams}

\* C19: every parameter record of a result has a string defaultValue, the
\* empty string below the top level, for the properties read from an
\* interface as for those of an inline object
C19_DefaultValueIsString ==
  Called =>
    /\ \A p \in AllParams : p.defaultValue # None
    /\ \A p \in InnerParams : p.defaultValue = Some(<<>>)

(***************************************************************************)
(* C20.  The order in which the semantic tier looks at the rendered text.  *)
(***************************************************************************)
\* the parameters of the last call that the semantic tier reduced
SemanticOccurrences == {o \in Occurrences : trace[o[1]][o[2]].tier = "semantic"}

\* the resolved type of the written parameter o
resolved(o) == getType(written[o[1]][o[2]], scope)

T_date == <<"d", "a", "t", "e">>

\* what the text alone decides, with dateText as the name of the date type:
\* the shape, or Null when the text decides nothing
ByText(text, dateText) ==
  IF Includes(text, <<"[", "]">>) \/ StartsWith(text, T_Array \o <<"<">>)
  THEN [type |-> "array",
        items |-> <<[name |-> T_item, type |-> [type |-> "string"],
                     description |-> <<>>, required |-> TRUE,
                     defaultValue |-> Some(<<>>)]>>]
  ELSE IF Includes(text, T_string) THEN [type |-> "string"]
  ELSE IF Includes(text, T_number) THEN [type |-> "number"]
  ELSE IF Includes(text, T_boolean) THEN [type |-> "boolean"]
  ELSE IF Includes(text, dateText) THEN [type |-> "date"]
  ELSE Null

\* the semantic tier follows the text where the text decides, and gives an
\* object or the primitive string where it does not
FollowsText(dateText) ==
  Called =>
    \A o \in SemanticOccurrences :
      IF ByText(resolved(o).text, dateText) # Null
      THEN reported(o).type = ByText(resolved(o).text, dateText)
      ELSE reported(o).type.type = "object" \/ reported(o).type = [type |-> "string"]

\* C20: the semantic tier gives an array of string for a text with `[]` or
\* starting with Array<, else the primitive of the first of "string",
\* "number", "boolean", "date" the text contains, and looks for an interface
\* only when the text contains none
C20_TextBeforeDeclarations == FollowsText(T_date)

\* C20 (amended): as C20, with "Date" as the fourth substring
C20_TextBeforeDeclarationsDate == FollowsText(T_Date)

\* (string) | number is the primitive string, (string[]) an array of string,
\* Update with interface Update an object
C20_Witness ==
  /\ Called
  /\ \E o \in SemanticOccurrences :
       /\ Includes(resolved(o).text, T_string)
       /\ Includes(resolved(o).text, T_number)
       /\ reported(o).type = [type |-> "string"]

(***************************************************************************)
(* C21.  The semantic tier when the lookup of the declarations fails.      *)
(***************************************************************************)
\* the declarations of the resolved type of o that are interfaces with a
\* plain property member
InterfacesWithProperties(o) ==
  IF resolved(o).declarations = None THEN <<>>
  ELSE SelectSeq(resolved(o).declarations[1],
                 LAMBDA d : /\ d.kind = "InterfaceDeclaration"
                            /\ PropertyMembers(d.members) # <<>>)

\* the parameters the semantic tier reduced whose text decides nothing and
\* whose type has no symbol, or no declaration that is an interface with a
\* plain property member
FailedLookups ==
  {o \in SemanticOccurrences :
     /\ ByText(resolved(o).text, T_Date) = Null
     /\ InterfacesWithProperties(o) = <<>>}

\* C21: when the lookup of the declarations fails, the parameter is reported
\* as the primitive string
C21_FailedLookupIsString ==
  Called => \A o \in FailedLookups : reported(o).type = [type |-> "string"]

\* C21 (amended): when the lookup of the declarations fails, the parameter
\* is reported as an object without properties if the rendered text contains
\* a brace or the word interface, and as the primitive string otherwise
C21_FailedLookupIsEmptyObjectOrString ==
  Called =>
    \A o \in FailedLookups :
      reported(o).type =
        IF Includes(resolved(o).text, <<"{">>) \/ Includes(resolved(o).text, T_interface)
        THEN [type |-> "object", properties |-> <<>>]
        ELSE [type |-> "string"]

\* ({ id(): void; email?: any }): the symbol's declaration is a type
\* literal, and the text has a brace
C21_Witness ==
  /\ Called
  /\ \E o \in FailedLookups :
       /\ resolved(o).declarations # None
       /\ resolved(o).declarations[1][1].kind = "TypeLiteral"
       /\ PropertyMembers(resolved(o).declarations[1][1].members) # <<>>
       /\ reported(o).type = [type |-> "object", properties |-> <<>>]

(***************************************************************************)
(* C22.  The description of a function or a variable.                      *)
(***************************************************************************)
RECURSIVE FirstNonEmpty(_)
\* the first text of texts that is not empty, the empty text when none is
FirstNonEmpty(texts) ==
  IF texts = <<>> THEN <<>>
  ELSE IF texts[1] # <<>> THEN texts[1]
  ELSE FirstNonEmpty(Tail(texts))

\* what the attempts find for a variable, in order: nothing on the
\* declaration and its list, the documentation block of the statement, the
\* comment the scan finds before the name
VariableAttempts(v) ==
  (IF v.statement.jsDocs # <<>> THEN <<v.statement.jsDocs[1].description>> ELSE <<>>)
    \o (IF v.leadingComment # None THEN <<commentText(v.leadingComment[1])>> ELSE <<>>)

\* what the attempts find for a function declaration: its documentation block
FunctionAttempts(func) ==
  IF func.jsDocs # <<>> THEN <<func.jsDocs[1].description>> ELSE <<>>

\* the entries of the result, functions and constants
Entries == result[1].functions \o result[1].constants

\* C22: with includeJsDoc, the description of a function or variable is the
\* first non-empty result of the attempts; a documentation block with an
\* empty description does not end the search
C22_FirstNonEmptyDescription ==
  (Called /\ Truthy(call[1].options.includeJsDoc)) =>
    /\ \A i \in 1..Len(getFunctions(call[1].sourceFile)) :
         result[1].functions[i].description =
           Some(FirstNonEmpty(FunctionAttempts(getFunctions(call[1].sourceFile)[i])))
    /\ \A k \in 1..Len(variables) : \A i \in 1..Len(Entries) :
         Entries[i].name = variables[k].name =>
           Entries[i].description = Some(FirstNonEmpty(VariableAttempts(variables[k])))

(***************************************************************************)
(* C23.  Nested occurrences the syntactic tier leaves unresolved.          *)
(***************************************************************************)
RECURSIVE UnresolvedNestedAreString(_, _)
\* shape is what the syntactic tier gave for node: wherever the element of
\* an array or a member of an object type inside node is unresolved by the
\* syntactic tier, the shape has the primitive string in its place
UnresolvedNestedAreString(node, shape) ==
  CASE WrittenArray(node) ->
         /\ shape.type = "array"
         /\ IF parseTypeNode(ElementOf(node)) = Null
            THEN shape.items[1].type = [type |-> "string"]
            ELSE UnresolvedNestedAreString(ElementOf(node), shape.items[1].type)
    [] node.kind = "UnionType" /\ shape.type # "enum" ->
         UnresolvedNestedAreString(node.typeNodes[1], shape)
    [] node.kind = "TypeLiteral" ->
         /\ shape.type = "object"
         /\ \A k \in 1..Len(node.members) :
              LET m == node.members[k]
              IN  (m.kind = "PropertySignature" /\ m.typeNode # None) =>
                    IF parseTypeNode(m.typeNode[1]) = Null
                    THEN Get(shape.properties, m.name).type = [type |-> "string"]
                    ELSE UnresolvedNestedAreString(m.typeNode[1],
                                                   Get(shape.properties, m.name).type)
    [] OTHER -> TRUE

\* the parameters annotated with an interface whose properties the semantic
\* tier reports
InterfaceObjects ==
  {o \in Annotated \cap SemanticOccurrences :
     /\ annotation(o).kind = "TypeReference"
     /\ ByText(resolved(o).text, T_Date) = Null
     /\ InterfacesWithProperties(o) # <<>>}

\* C23: an element of `T[]` or `Array<T>`, a member of an inline object and
\* a member of an interface that the syntactic tier leaves unresolved is
\* reported as the primitive string
C23_NestedUnresolvedIsString ==
  Called =>
    /\ \A o \in Annotated :
         trace[o[1]][o[2]].tier = "syntactic" =>
           UnresolvedNestedAreString(annotation(o), reported(o).type)
    /\ \A o \in InterfaceObjects :
         LET members == PropertyMembers(InterfacesWithProperties(o)[1].members)
         IN  \A k \in 1..Len(members) :
               IF members[k].typeNode # None
                    /\ parseTypeNode(members[k].typeNode[1]) = Null
               THEN Get(reported(o).type.properties, members[k].name).type
                      = [type |-> "string"]
               ELSE members[k].typeNode # None =>
                      UnresolvedNestedAreString(
                        members[k].typeNode[1],
                        Get(reported(o).type.properties, members[k].name).type)

\* Props[] with interface Props declared: Props alone is an object, the
\* element of the array is the primitive string
C23_Witness ==
  /\ Called
  /\ \E o \in Annotated :
       /\ annotation(o) = ArrayTypeNode(RefT(T_Props))
       /\ declarationsOf(T_Props, scope) # <<>>
       /\ reduce(RefT(T_Props)).type = "object"
       /\ reported(o).type.items[1].type = [type |-> "string"]

(***************************************************************************)
(* C24.  The order of the functions list.                                  *)
(***************************************************************************)
\* the statements of the file of the last call
statements == call[1].sourceFile.statements

\* the names and parameter names of the function declarations, in source order
WrittenFunctions ==
  LET funcs == SelectSeq(statements, LAMBDA st : st.kind = "FunctionDeclaration")
  IN  [i \in 1..Len(funcs) |->
         [name |-> OrElse(funcs[i].name, T_anonymous),
          parameters |-> [j \in 1..Len(funcs[i].parameters) |->
                            funcs[i].parameters[j].name]]]

\* the names and parameter names of the arrow-function variables, in source order
WrittenArrows ==
  LET arrows == SelectSeq(variables, IsArrowFunction)
  IN  [i \in 1..Len(arrows) |->
         [name |-> arrows[i].name,
          parameters |-> [j \in 1..Len(arrows[i].initializer[1].parameters) |->
                            arrows[i].initializer[1].parameters[j].name]]]

\* the names and parameter names of the functions of the result
ReportedFunctions ==
  [i \in 1..Len(result[1].functions) |->
     [name |-> result[1].functions[i].name,
      parameters |-> [j \in 1..Len(result[1].functions[i].parameters) |->
                        result[1].functions[i].parameters[j].name]]]

\* C24: the functions of a result are the function declarations in source
\* order, then the arrow-function variables in source order, each once and
\* each with its parameters in the order written
C24_DeclarationsThenArrows ==
  Called => ReportedFunctions = WrittenFunctions \o WrittenArrows

\* an arrow function written before a function declaration is listed after it
C24_Witness ==
  /\ Called
  /\ Len(statements) >= 2
  /\ statements[1].kind = "VariableStatement"
  /\ IsArrowFunction(variables[1])
  /\ statements[2].kind = "FunctionDeclaration"
  /\ Len(result[1].functions) = 2
  /\ result[1].functions[1].name = T_f
  /\ result[1].functions[2].name = variables[1].name
  /\ [j \in 1..2 |-> result[1].functions[2].parameters[j].name]
       = <<ParamNames[2], ParamNames[1]>>

(***************************************************************************)
(* C25.  What the options do not change.                                   *)
(***************************************************************************)
\* a parse result without the description of its functions and constants
\* and without the description and defaultValue of its functions' parameters
Frame(res) ==
  [functions |->
     [i \in 1..Len(res.functions) |->
        [name |-> res.functions[i].name,
         returnType |-> res.functions[i].returnType,
         parameters |->
           [j \in 1..Len(res.functions[i].parameters) |->
              [name |-> res.functions[i].parameters[j].name,
               type |-> res.functions[i].parameters[j].type,
               required |-> res.functions[i].parameters[j].required]]]],
   constants |->
     [i \in 1..Len(res.constants) |->
        [name |-> res.constants[i].name,
         type |-> res.constants[i].type,
         value |-> res.constants[i].value]]]

\* C25: the same file parsed with any other options gives the same
\* functions, constants and parameters, with the same names, types,
\* required flags, return types and constant types and values
C25_OptionsChangeDescriptionsAndDefaultsOnly ==
  Called =>
    \A options \in AllOptions :
      Frame(result[1]) = Frame(parseSourceFile(call[1].sourceFile, options, scope))

\* both options set: a description and a default value are reported, and the
\* rest is what the default options give
C25_Witness ==
  /\ Called
  /\ call[1].options = ParseOptions(Some(TRUE), Some(TRUE))
  /\ \E o \in Occurrences :
       /\ reported(o).defaultValue # Some(<<>>)
       /\ reported(o).description # <<>>
       /\ ~reported(o).required
  /\ result[1] # parseSourceFile(call[1].sourceFile, ParseOptions(None, None), scope)
  /\ Frame(result[1])
       = Frame(parseSourceFile(call[1].sourceFile, ParseOptions(None, None), scope))

====
